---- MODULE Spec2Model ----
(***************************************************************************)
(* A model of DataAnalyzer.py: the HL7 full-table parser, the ORLine and   *)
(* WISH rule engines, the variant dispatch and main()'s batch loop.        *)
(*                                                                         *)
(* A Python str is a sequence of one-character strings; a dict is a        *)
(* function from its keys (TLA+ strings) to its values; a DataFrame is a   *)
(* record of its column labels and its rows (cells in column order).       *)
(***************************************************************************)
EXTENDS Naturals, Sequences, FiniteSets

VARIABLES
    entry,            \* "main": main() runs; "call": the parsers are called on one text
    source_choice,    \* the variant string
    uploaded_files,   \* the uploaded batch: a sequence of [name, text]
    idx,              \* position of the file main()'s loop is at
    pc,               \* where control is
    hl7_message,      \* the text being parsed
    lignes,           \* the rule engine's lines
    li,               \* position of the line the rule engine's loop is at
    data,             \* the rule engine's mapping
    log,              \* history: every assignment to data made by this parse
    seen,             \* history: champs of every line this parse examined
    details,          \* what parse_details_hl7_dynamic returned
    df_full,          \* what parse_full_hl7 returned
    full_parsed_list,
    details_list,
    df_full_combined,
    details_df,
    patient_ids,
    warning

vars == <<entry, source_choice, uploaded_files, idx, pc, hl7_message, lignes, li,
          data, log, seen, details, df_full, full_parsed_list, details_list,
          df_full_combined, details_df, patient_ids, warning>>

(***************************************************************************)
(* Bounds of the model.                                                    *)
(***************************************************************************)
MaxFiles == 3   \* files in a batch given to main()
MaxLines == 2   \* lines of a text given to a direct call
MaxTok == 4     \* tokens of a generated AIL field 4

(***************************************************************************)
(* Python values that are not strings.                                     *)
(***************************************************************************)
NaN == <<"NaN">>                 \* pandas' missing cell
IndexError == <<"IndexError">>   \* a list index out of range
ValueError == [kind |-> "ValueError"]   \* max() of an empty sequence
Unbound == [kind |-> "unbound"]         \* a name not bound yet
EmptyDict == <<>>                \* {}

(***************************************************************************)
(* str operations.                                                         *)
(***************************************************************************)
LF == "\n"
Whitespace == {" ", "\t", LF}

MinOf(S) == CHOOSE m \in S : \A n \in S : m <= n

MaxOf(S) == CHOOSE m \in S : \A n \in S : m >= n

\* s.find(sub), 1-based; 0 when sub does not occur
Find(s, sub) ==
    LET hits == {p \in 1..(Len(s) + 1 - Len(sub)) : SubSeq(s, p, p + Len(sub) - 1) = sub}
    IN IF Len(sub) > Len(s) \/ hits = {} THEN 0 ELSE MinOf(hits)

\* sub in s
Contains(s, sub) == Find(s, sub) # 0

\* s[a:b], 0-based half-open as in Python, clamped to the string
Slice(s, a, b) == SubSeq(s, a + 1, IF b < Len(s) THEN b ELSE Len(s))

\* s.strip()
Strip(s) ==
    LET keep == {i \in 1..Len(s) : s[i] \notin Whitespace}
    IN IF keep = {} THEN <<>> ELSE SubSeq(s, MinOf(keep), MaxOf(keep))

RECURSIVE SplitN(_, _, _)
\* s.split(sep, maxsplit); maxsplit is a count of splits still allowed
SplitN(s, sep, maxsplit) ==
    LET p == Find(s, sep)
    IN IF p = 0 \/ maxsplit = 0
       THEN <<s>>
       ELSE <<SubSeq(s, 1, p - 1)>>
            \o SplitN(SubSeq(s, p + Len(sep), Len(s)), sep, maxsplit - 1)

\* s.split(sep): a string of n characters holds fewer than n + 1 separators
Split(s, sep) == SplitN(s, sep, Len(s) + 1)

RECURSIVE SplitLines(_)
\* s.splitlines(): no empty last line after a final line break; the texts of
\* the model break their lines with "\n" alone
SplitLines(s) ==
    LET p == Find(s, <<LF>>)
    IN IF s = <<>> THEN <<>>
       ELSE IF p = 0 THEN <<s>>
       ELSE <<SubSeq(s, 1, p - 1)>> \o SplitLines(SubSeq(s, p + 1, Len(s)))

\* lst[i], 0-based: raises IndexError out of range
Idx(lst, i) == IF i < Len(lst) THEN lst[i + 1] ELSE IndexError

(***************************************************************************)
(* dict operations.                                                        *)
(***************************************************************************)
\* a variant of SetItem that keeps the value a key already has
SetItemKeepFirst(d, k, v) ==
    [x \in DOMAIN d \cup {k} |-> IF x \in DOMAIN d THEN d[x] ELSE v]

\* d[k] = v
SetItem(d, k, v) ==
    [x \in DOMAIN d \cup {k} |-> IF x = k THEN v ELSE d[x]]

\* one assignment statement data[key] = val; lit: val is a string literal of the code
Asg(key, val, lit) == [key |-> key, val |-> val, lit |-> lit]

RECURSIVE Apply(_, _)
\* data after the assignments asgs, in order
Apply(asgs, d) ==
    IF asgs = <<>> THEN d
    ELSE Apply(Tail(asgs), SetItem(d, Head(asgs).key, Head(asgs).val))

(***************************************************************************)
(* parse_full_hl7                                                          *)
(***************************************************************************)
Digits == <<"0", "1", "2", "3", "4", "5", "6", "7", "8", "9">>

\* f"Field {i+1}" for the 0-based i = n - 1
FieldCol(n) == <<"F", "i", "e", "l", "d", " ">>
               \o (IF n >= 10 THEN <<Digits[(n \div 10) + 1]>> ELSE <<>>)
               \o <<Digits[(n % 10) + 1]>>

Fichier == <<"F", "i", "c", "h", "i", "e", "r">>

\* line.split("|")
FullFields(line) == Split(line, <<"|">>)

\* row.extend([""] * (max_fields - len(row)))
Pad(row, max_fields) == row \o [j \in 1..(max_fields - Len(row)) |-> <<>>]

parse_full_hl7(text) ==
    LET lines == SplitLines(Strip(text))
        rows == [i \in 1..Len(lines) |-> FullFields(lines[i])]
        max_fields == MaxOf({Len(rows[i]) : i \in 1..Len(rows)})
    IN IF rows = <<>> THEN ValueError
       ELSE [kind |-> "df",
             columns |-> [j \in 1..max_fields |-> FieldCol(j)],
             rows |-> [i \in 1..Len(rows) |-> Pad(rows[i], max_fields)]]

\* df[col] = value
SetColumn(df, col, value) ==
    [kind |-> "df",
     columns |-> Append(df.columns, col),
     rows |-> [i \in 1..Len(df.rows) |-> Append(df.rows[i], value)]]

\* pd.concat(dfs, ignore_index=True, sort=False): the columns are the union of the
\* frames' columns in order of first appearance; a cell of a column its frame
\* does not have is NaN
RECURSIVE UnionColumns(_, _)
UnionColumns(dfs, acc) ==
    IF dfs = <<>> THEN acc
    ELSE UnionColumns(Tail(dfs),
            acc \o SelectSeq(Head(dfs).columns,
                             LAMBDA c : \A j \in 1..Len(acc) : acc[j] # c))

Reindex(df, columns) ==
    [i \in 1..Len(df.rows) |->
        [j \in 1..Len(columns) |->
            LET at == {k \in 1..Len(df.columns) : df.columns[k] = columns[j]}
            IN IF at = {} THEN NaN ELSE df.rows[i][MinOf(at)]]]

RECURSIVE ConcatRows(_, _)
ConcatRows(dfs, columns) ==
    IF dfs = <<>> THEN <<>>
    ELSE Reindex(Head(dfs), columns) \o ConcatRows(Tail(dfs), columns)

Concat(dfs) ==
    LET columns == UnionColumns(dfs, <<>>)
    IN [kind |-> "df", columns |-> columns, rows |-> ConcatRows(dfs, columns)]

(***************************************************************************)
(* Segment identifiers and the literals of the rules.                      *)
(***************************************************************************)
PID == <<"P", "I", "D">>
PV1 == <<"P", "V", "1">>
PV2 == <<"P", "V", "2">>
SCH == <<"S", "C", "H">>
OBX == <<"O", "B", "X">>
AIL == <<"A", "I", "L">>
MSH == <<"M", "S", "H">>
Bar == <<"|">>
Caret == <<"^">>
Caret3 == <<"^", "^", "^">>
Dot == <<".">>
Slash == <<"/">>
Colon == <<":">>
\* "(Donnee correcte extraite de PV1-2)", one element standing for the text
Annotation == <<"(Donnee correcte extraite de PV1-2)">>
TypeHosp == "Type d'hospitalisation"

ORLine == <<"O", "R", "L", "i", "n", "e">>
WISH == <<"W", "I", "S", "H">>

(***************************************************************************)
(* parse_details_hl7_orline: the rules of one line. Each yields the        *)
(* assignments to data the line makes, in order.                           *)
(***************************************************************************)
\* a variant of orline_PID whose threshold is one field short
orline_PID_short(champs) ==
    IF Len(champs) > 1 THEN <<Asg("ID PAT", Idx(champs, 2), FALSE)>> ELSE <<>>

orline_PID(champs) ==
    IF Len(champs) > 2 THEN <<Asg("ID PAT", Idx(champs, 2), FALSE)>> ELSE <<>>

orline_PV1(champs) ==
    (IF Len(champs) > 2 THEN <<Asg("Admission Entree", Idx(champs, 2), FALSE)>> ELSE <<>>)
    \o (IF Len(champs) > 18 THEN <<Asg("ID Sejour", Idx(champs, 18), FALSE)>> ELSE <<>>)

\* a variant of orline_SCH that stores "" for a date too short to format
orline_SCH_placeholder(champs) ==
    (IF Len(champs) > 1
     THEN <<Asg("ID Operation", Idx(Split(Idx(champs, 1), Caret), 0), FALSE)>>
     ELSE <<>>)
    \o (IF Len(champs) > 11
        THEN LET sous_champs == Split(Idx(champs, 11), Caret)
             IN IF Len(sous_champs) > 3
                THEN LET dt == Idx(sous_champs, 3)
                     IN IF Len(dt) >= 8
                        THEN LET date_str == Slice(dt, 0, 8)
                             IN <<Asg("Dat Operation",
                                      Slice(date_str, 6, 8) \o Slash
                                      \o Slice(date_str, 4, 6) \o Slash
                                      \o Slice(date_str, 0, 4), FALSE)>>
                        ELSE <<Asg("Dat Operation", <<>>, TRUE)>>
                ELSE <<>>
        ELSE <<>>)

orline_SCH(champs) ==
    (IF Len(champs) > 1
     THEN <<Asg("ID Operation", Idx(Split(Idx(champs, 1), Caret), 0), FALSE)>>
     ELSE <<>>)
    \o (IF Len(champs) > 11
        THEN LET sous_champs == Split(Idx(champs, 11), Caret)
             IN IF Len(sous_champs) > 3
                THEN LET dt == Idx(sous_champs, 3)
                     IN IF Len(dt) >= 8
                        THEN LET date_str == Slice(dt, 0, 8)
                             IN <<Asg("Dat Operation",
                                      Slice(date_str, 6, 8) \o Slash
                                      \o Slice(date_str, 4, 6) \o Slash
                                      \o Slice(date_str, 0, 4), FALSE)>>
                        ELSE <<>>
                ELSE <<>>
        ELSE <<>>)

orline_OBX(champs) ==
    IF Len(champs) > 1 /\ Idx(champs, 1) = <<"2">>
    THEN IF Len(champs) > 5
         THEN <<Asg("Cod Service Entree", Idx(champs, 5), FALSE)>>
         ELSE <<>>
    ELSE <<>>

\* a variant of orline_AIL that splits the service on "^" instead of "^^^"
orline_AIL_caret(champs) ==
    IF Len(champs) > 3
    THEN LET champ_ail == Idx(champs, 3)
         IN IF Contains(champ_ail, Dot)
            THEN LET splitted_dot == SplitN(champ_ail, Dot, 1)
                     ail_after_dot == IF Len(splitted_dot) > 1
                                      THEN Idx(splitted_dot, 1) ELSE <<>>
                     splitted_caret == SplitN(ail_after_dot, Caret, 1)
                 IN <<Asg("Cod Service Entree", Strip(Idx(splitted_caret, 0)), FALSE)>>
                    \o (IF Len(splitted_caret) > 1
                        THEN <<Asg("Service Entree",
                                   Caret3 \o Strip(Idx(Split(Idx(splitted_caret, 1), Caret), 0)),
                                   FALSE)>>
                        ELSE <<Asg("Service Entree", <<>>, TRUE)>>)
            ELSE <<Asg("Cod Service Entree", champ_ail, FALSE),
                   Asg("Service Entree", <<>>, TRUE)>>
    ELSE <<>>

orline_AIL(champs) ==
    IF Len(champs) > 3
    THEN LET champ_ail == Idx(champs, 3)
         IN IF Contains(champ_ail, Dot)
            THEN LET splitted_dot == SplitN(champ_ail, Dot, 1)
                     ail_after_dot == IF Len(splitted_dot) > 1
                                      THEN Idx(splitted_dot, 1) ELSE <<>>
                     splitted_caret == SplitN(ail_after_dot, Caret3, 1)
                 IN <<Asg("Cod Service Entree", Strip(Idx(splitted_caret, 0)), FALSE)>>
                    \o (IF Len(splitted_caret) > 1
                        THEN <<Asg("Service Entree",
                                   Caret3 \o Strip(Idx(Split(Idx(splitted_caret, 1), Caret), 0)),
                                   FALSE)>>
                        ELSE <<Asg("Service Entree", <<>>, TRUE)>>)
            ELSE <<Asg("Cod Service Entree", champ_ail, FALSE),
                   Asg("Service Entree", <<>>, TRUE)>>
    ELSE <<>>

\* a variant of orline_PV2 without the "not in data" guard
orline_PV2_unguarded(d) == <<Asg(TypeHosp, Annotation, TRUE)>>

orline_PV2(d) ==
    IF TypeHosp \notin DOMAIN d THEN <<Asg(TypeHosp, Annotation, TRUE)>> ELSE <<>>

\* the body of the loop over lignes
orline_ligne(champs, d) ==
    LET segment == Idx(champs, 0)
    IN IF segment = PID THEN orline_PID(champs)
       ELSE IF segment = PV1 THEN orline_PV1(champs)
       ELSE IF segment = SCH THEN orline_SCH(champs)
       ELSE IF segment = OBX THEN orline_OBX(champs)
       ELSE IF segment = AIL THEN orline_AIL(champs)
       ELSE IF segment = PV2 THEN orline_PV2(d)
       ELSE <<>>

(***************************************************************************)
(* parse_details_hl7_wish: the rules of one line.                          *)
(***************************************************************************)
\* a variant of wish_MSH that writes month/day/year
wish_MSH_swapped(champs) ==
    IF Len(champs) > 6
    THEN LET dt_str == Idx(champs, 6)
         IN IF Len(dt_str) >= 8
            THEN LET annee == Slice(dt_str, 0, 4)
                     mois == Slice(dt_str, 4, 6)
                     jour == Slice(dt_str, 6, 8)
                 IN <<Asg("Date Message", mois \o Slash \o jour \o Slash \o annee, FALSE)>>
                    \o (IF Len(dt_str) >= 12
                        THEN <<Asg("Heure Message",
                                   Slice(dt_str, 8, 10) \o Colon \o Slice(dt_str, 10, 12),
                                   FALSE)>>
                        ELSE <<Asg("Heure Message", <<>>, TRUE)>>)
            ELSE <<>>
    ELSE <<>>

wish_MSH(champs) ==
    IF Len(champs) > 6
    THEN LET dt_str == Idx(champs, 6)
         IN IF Len(dt_str) >= 8
            THEN LET annee == Slice(dt_str, 0, 4)
                     mois == Slice(dt_str, 4, 6)
                     jour == Slice(dt_str, 6, 8)
                 IN <<Asg("Date Message", jour \o Slash \o mois \o Slash \o annee, FALSE)>>
                    \o (IF Len(dt_str) >= 12
                        THEN <<Asg("Heure Message",
                                   Slice(dt_str, 8, 10) \o Colon \o Slice(dt_str, 10, 12),
                                   FALSE)>>
                        ELSE <<Asg("Heure Message", <<>>, TRUE)>>)
            ELSE <<>>
    ELSE <<>>

wish_PID(champs) ==
    (IF Len(champs) > 3 THEN <<Asg("ID PAT", Idx(champs, 3), FALSE)>> ELSE <<>>)
    \o (IF Len(champs) > 7
        THEN LET dob_str == Idx(champs, 7)
             IN IF Len(dob_str) >= 8
                THEN <<Asg("Date Naissance",
                           Slice(dob_str, 6, 8) \o Slash \o Slice(dob_str, 4, 6)
                           \o Slash \o Slice(dob_str, 0, 4), FALSE)>>
                ELSE <<>>
        ELSE <<>>)
    \o (IF Len(champs) > 8 THEN <<Asg("Sexe", Idx(champs, 8), FALSE)>> ELSE <<>>)

\* the body of the loop over lignes
wish_ligne(champs, d) ==
    LET segment == Idx(champs, 0)
    IN IF segment = MSH THEN wish_MSH(champs)
       ELSE IF segment = PID THEN wish_PID(champs)
       ELSE <<>>

\* ligne.strip().split("|")
RuleFields(ligne) == Split(Strip(ligne), Bar)

(***************************************************************************)
(* main(): the patient lookup.                                             *)
(***************************************************************************)
\* pd.DataFrame(details_list).columns
RecordColumns(records) == UNION {DOMAIN records[i] : i \in 1..Len(records)}

\* details_df[col]: NaN where the record has no such key
Column(records, col) ==
    [i \in 1..Len(records) |->
        IF col \in DOMAIN records[i] THEN records[i][col] ELSE NaN]

\* Series.dropna()
DropNa(values) == SelectSeq(values, LAMBDA v : v # NaN)

\* a variant of Unique that keeps every occurrence
UniqueKeepAll(values) == values

RECURSIVE UniqueFrom(_, _)
UniqueFrom(values, acc) ==
    IF values = <<>> THEN acc
    ELSE UniqueFrom(Tail(values),
            IF \E j \in 1..Len(acc) : acc[j] = Head(values)
            THEN acc ELSE Append(acc, Head(values)))

\* Series.unique().tolist(): the distinct values in order of first appearance
Unique(values) == UniqueFrom(values, <<>>)

(***************************************************************************)
(* Inputs.                                                                 *)
(***************************************************************************)
RECURSIVE Join(_, _)
\* sep.join(parts)
Join(parts, sep) ==
    IF parts = <<>> THEN <<>>
    ELSE IF Len(parts) = 1 THEN parts[1]
    ELSE parts[1] \o sep \o Join(Tail(parts), sep)

L(fields) == Join(fields, Bar)

F1 == <<"1">>
Fz == <<"z">>
Stamp == <<"2", "0", "2", "3", "0", "1", "1", "5", "0", "9", "3", "0", "0", "0">>

MshLine(d) == L(<<MSH, <<"^">>, Fz, Fz, Fz, Fz, d>>)

AilLine(f) == L(<<AIL, F1, Fz, f>>)

OrlinePool ==
    { L(<<PID, F1, <<"A">>>>),
      L(<<PID, F1>>),
      <<" ">> \o L(<<PID, F1, <<"B">>>>) \o <<" ">>,
      L(<<PV1, F1, <<"E">>>> \o [j \in 1..15 |-> Fz] \o <<<<"S", "7">>>>),
      L(<<PV1, F1, <<"U">>>>),
      L(<<SCH, <<"O", "P", "^", "x">>>> \o [j \in 1..9 |-> Fz]
        \o <<<<"a", "^", "b", "^", "c", "^">> \o Stamp>>),
      L(<<SCH, <<"Q">>>> \o [j \in 1..9 |-> Fz]
        \o <<<<"a", "^", "b", "^", "c", "^", "2", "0", "2", "3">>>>),
      L(<<OBX, <<"2">>, Fz, Fz, Fz, <<"S", "V">>>>),
      L(<<OBX, F1, Fz, Fz, Fz, <<"N", "O">>>>),
      AilLine(<<"x", ".", "A", "B", "C", "^", "^", "^", "D", "E", "F", "^", "G", "H", "I">>),
      AilLine(<<"N", "O", "D", "O", "T">>),
      AilLine(<<"a", ".", " ", "K", " ", "^", "^", "^", " ", "M", " ", "^", "^", "^", "n", ".">>),
      L(<<AIL, F1, Fz>>),
      PV2,
      L(<<PV2, Fz>>),
      <<>>,
      L(<<MSH, Fz>>) }

WishPool ==
    { MshLine(Stamp),
      MshLine(<<"1", "9", "9", "9", "1", "2", "3", "1", "2", "3", "5", "9">>),
      MshLine(<<"a", "b", "c", "d", "e", "f", "g", "h", "i">>),
      MshLine(<<"2", "0", "2", "4", "0", "2", "3", " ">>),
      L(<<MSH, Fz, Fz>>),
      L(<<PID, F1, Fz, <<"A">>>>),
      L(<<PID, F1, Fz, <<"B">>, Fz, Fz, Fz, <<"1", "9", "8", "0", "0", "2", "2", "9">>, <<"M">>>>),
      L(<<PID, F1, Fz, <<"C">>, Fz, Fz, Fz, <<"1", "9", "8", "0">>>>),
      <<"\t">> \o L(<<PID, F1, Fz, <<" ", "D">>>>),
      L(<<PID, F1, Fz>>),
      <<>>,
      <<"Z", "Z", "Z">>,
      PV2 }

OtherPool == { L(<<PID, F1, <<"A">>, <<"A">>>>), PV2, <<>> }

OtherVariants == { <<"o", "r", "l", "i", "n", "e">>, <<>>, <<"H", "L", "7">> }

\* the field 4 of a generated AIL line: up to MaxTok of these tokens
Tokens == { <<"x">>, Dot, Caret3, Caret, <<" ">> }

RECURSIVE Flatten(_)
Flatten(parts) == IF parts = <<>> THEN <<>> ELSE Head(parts) \o Flatten(Tail(parts))

TokFields == { Flatten(t) : t \in UNION { [1..n -> Tokens] : n \in 0..MaxTok } }

Texts(pool) ==
    { Join(ls, <<LF>>) : ls \in UNION { [1..n -> pool] : n \in 0..MaxLines } }

\* the (variant, text) pairs of the direct calls
CallInputs ==
    ({ORLine} \X (Texts(OrlinePool) \cup {AilLine(f) : f \in TokFields}))
    \cup ({WISH} \X (Texts(WishPool)
                      \cup {MshLine(SubSeq(Stamp, 1, n)) : n \in 0..Len(Stamp)}))
    \cup (OtherVariants \X Texts(OtherPool))

\* the texts of the files uploaded to main()
Messages ==
    { L(<<PID, F1, <<"A">>, <<"A">>>>),
      Join(<<L(<<PID, F1, <<"B">>, <<"B">>, Fz>>), PV2>>, <<LF>>),
      Join(<<L(<<MSH, Fz>>), <<"Z", "Z", "Z">>>>, <<LF>>),
      Join(<<<<" ">> \o L(<<PID, F1, <<"A">>, <<"A", " ">>>>),
             AilLine(<<"N", "O", "D", "O", "T">>)>>, <<LF>>) \o <<LF>>,
      <<>>,
      <<" ", LF>> }

FileName(i) == <<"f", Digits[i + 1]>>

Batches ==
    { [i \in 1..Len(b) |-> [name |-> FileName(i), text |-> b[i]]] :
        b \in UNION { [1..n -> Messages] : n \in 0..MaxFiles } }

(***************************************************************************)
(* The state machine.                                                      *)
(***************************************************************************)
Init ==
    /\ \/ /\ entry = "main"
          /\ source_choice \in {WISH, ORLine}
          /\ uploaded_files \in Batches
          /\ hl7_message = <<>>
          /\ pc = "main"
       \/ /\ entry = "call"
          /\ \E input \in CallInputs :
                /\ source_choice = input[1]
                /\ hl7_message = input[2]
          /\ uploaded_files = <<>>
          /\ pc = "dispatch"
    /\ idx = 0
    /\ lignes = <<>>
    /\ li = 0
    /\ data = EmptyDict
    /\ log = <<>>
    /\ seen = <<>>
    /\ details = EmptyDict
    /\ df_full = Unbound
    /\ full_parsed_list = <<>>
    /\ details_list = <<>>
    /\ df_full_combined = Unbound
    /\ details_df = Unbound
    /\ patient_ids = <<>>
    /\ warning = FALSE

\* main(), "if uploaded_files:" and the two empty lists
MainStart ==
    /\ pc = "main"
    /\ IF uploaded_files # <<>>
       THEN idx' = 1 /\ pc' = "file"
       ELSE idx' = idx /\ pc' = "done"
    /\ UNCHANGED <<entry, source_choice, uploaded_files, hl7_message, lignes, li, data,
                   log, seen, details, df_full, full_parsed_list, details_list,
                   df_full_combined, details_df, patient_ids, warning>>

\* main(), the loop's decoding and full parse of one file; the ValueError of
\* parse_full_hl7 is not caught and ends main()
MainParseFull ==
    /\ pc = "file"
    /\ hl7_message' = uploaded_files[idx].text
    /\ LET df == parse_full_hl7(uploaded_files[idx].text)
       IN IF df.kind = "ValueError"
          THEN /\ pc' = "crashed"
               /\ UNCHANGED <<df_full, full_parsed_list>>
          ELSE /\ df_full' = SetColumn(df, Fichier, uploaded_files[idx].name)
               /\ full_parsed_list' = Append(full_parsed_list, df_full')
               /\ pc' = "dispatch"
    /\ UNCHANGED <<entry, source_choice, uploaded_files, idx, lignes, li, data, log,
                   seen, details, details_list, df_full_combined, details_df,
                   patient_ids, warning>>

\* parse_details_hl7_dynamic, and the first two statements of the parser it selects
Dispatch ==
    /\ pc = "dispatch"
    /\ log' = <<>>
    /\ seen' = <<>>
    /\ data' = EmptyDict
    /\ IF source_choice = ORLine \/ source_choice = WISH
       THEN /\ lignes' = SplitLines(Strip(hl7_message))
            /\ li' = 1
            /\ details' = details
            /\ pc' = "loop"
       ELSE /\ lignes' = <<>>
            /\ li' = 0
            /\ details' = EmptyDict
            /\ pc' = "returned"
    /\ UNCHANGED <<entry, source_choice, uploaded_files, idx, hl7_message, df_full,
                   full_parsed_list, details_list, df_full_combined, details_df,
                   patient_ids, warning>>

\* one iteration of "for ligne in lignes"; an IndexError would leave the parser
DetailsLine ==
    /\ pc = "loop"
    /\ li <= Len(lignes)
    /\ LET champs == RuleFields(lignes[li])
           asgs == IF source_choice = ORLine
                   THEN orline_ligne(champs, data)
                   ELSE wish_ligne(champs, data)
       IN IF \E a \in 1..Len(asgs) : asgs[a].val = IndexError
          THEN /\ pc' = "raised"
               /\ UNCHANGED <<data, log, seen, li>>
          ELSE /\ data' = Apply(asgs, data)
               /\ log' = log \o [a \in 1..Len(asgs) |->
                                    [ln |-> li, key |-> asgs[a].key,
                                     val |-> asgs[a].val, lit |-> asgs[a].lit]]
               /\ seen' = Append(seen, champs)
               /\ li' = li + 1
               /\ pc' = pc
    /\ UNCHANGED <<entry, source_choice, uploaded_files, idx, hl7_message, lignes,
                   details, df_full, full_parsed_list, details_list, df_full_combined,
                   details_df, patient_ids, warning>>

\* "return data"
DetailsReturn ==
    /\ pc = "loop"
    /\ li > Len(lignes)
    /\ details' = data
    /\ pc' = "returned"
    /\ UNCHANGED <<entry, source_choice, uploaded_files, idx, hl7_message, lignes, li,
                   data, log, seen, df_full, full_parsed_list, details_list,
                   df_full_combined, details_df, patient_ids, warning>>

\* main(), the loop's tagging and appending of the record, and the loop's end
MainAppend ==
    /\ entry = "main"
    /\ pc = "returned"
    /\ details_list' =
          Append(details_list,
                 SetItem(SetItem(details, "Fichier", uploaded_files[idx].name),
                         "Source HL7", source_choice))
    /\ IF idx < Len(uploaded_files)
       THEN idx' = idx + 1 /\ pc' = "file"
       ELSE idx' = idx /\ pc' = "concat"
    /\ UNCHANGED <<entry, source_choice, uploaded_files, hl7_message, lignes, li, data,
                   log, seen, details, df_full, full_parsed_list, df_full_combined,
                   details_df, patient_ids, warning>>

\* main(), "if full_parsed_list:" and the concatenation
MainConcat ==
    /\ pc = "concat"
    /\ df_full_combined' =
          IF full_parsed_list # <<>> THEN Concat(full_parsed_list) ELSE df_full_combined
    /\ pc' = "lookup"
    /\ UNCHANGED <<entry, source_choice, uploaded_files, idx, hl7_message, lignes, li,
                   data, log, seen, details, df_full, full_parsed_list, details_list,
                   details_df, patient_ids, warning>>

\* main(), the records' frame, the patient list or the warning
MainLookup ==
    /\ pc = "lookup"
    /\ details_df' = [kind |-> "df", records |-> details_list]
    /\ IF "ID PAT" \in RecordColumns(details_list)
       THEN /\ patient_ids' = Unique(DropNa(Column(details_list, "ID PAT")))
            /\ warning' = warning
       ELSE /\ patient_ids' = patient_ids
            /\ warning' = TRUE
    /\ pc' = "done"
    /\ UNCHANGED <<entry, source_choice, uploaded_files, idx, hl7_message, lignes, li,
                   data, log, seen, details, df_full, full_parsed_list, details_list,
                   df_full_combined>>

\* a direct call of parse_full_hl7 on the text the rule engine was given
CallParseFull ==
    /\ entry = "call"
    /\ pc = "returned"
    /\ df_full' = parse_full_hl7(hl7_message)
    /\ pc' = "called"
    /\ UNCHANGED <<entry, source_choice, uploaded_files, idx, hl7_message, lignes, li,
                   data, log, seen, details, full_parsed_list, details_list,
                   df_full_combined, details_df, patient_ids, warning>>

Next ==
    \/ MainStart
    \/ MainParseFull
    \/ Dispatch
    \/ DetailsLine
    \/ DetailsReturn
    \/ MainAppend
    \/ MainConcat
    \/ MainLookup
    \/ CallParseFull

Spec == Init /\ [][Next]_vars

(***************************************************************************)
(* What the claims speak of.                                               *)
(***************************************************************************)
KnownVariant == source_choice = ORLine \/ source_choice = WISH

\* the number of fields of a line: one more than its "|" characters
FieldCount(line) == Cardinality({p \in 1..Len(line) : line[p] = "|"}) + 1

\* the lines of a text
LinesOf(text) == SplitLines(Strip(text))

RECURSIVE BatchLines(_)
\* the lines of every file of a batch, in file order
BatchLines(files) ==
    IF files = <<>> THEN <<>>
    ELSE LinesOf(Head(files).text) \o BatchLines(Tail(files))

\* the cell of row r under the column labelled col; NaN-free only if present
CellAt(df, r, col) ==
    LET at == {k \in 1..Len(df.columns) : df.columns[k] = col}
    IN IF at = {} THEN <<"no such column">> ELSE df.rows[r][MinOf(at)]

\* the assignments line i of lignes makes, as the variant's rules state them
LineAsgs(i) ==
    IF source_choice = ORLine THEN orline_ligne(RuleFields(lignes[i]), EmptyDict)
    ELSE wish_ligne(RuleFields(lignes[i]), EmptyDict)

\* the value line i extracts for key k
ValueFrom(i, k) ==
    LET asgs == LineAsgs(i)
        at == {a \in 1..Len(asgs) : asgs[a].key = k}
    IN asgs[MaxOf(at)].val

Setters(k) ==
    {i \in 1..Len(lignes) : \E a \in 1..Len(LineAsgs(i)) : LineAsgs(i)[a].key = k}

RuleKeys ==
    {"ID PAT", "Admission Entree", "ID Sejour", "ID Operation", "Dat Operation",
     "Cod Service Entree", "Service Entree", TypeHosp, "Date Message", "Heure Message",
     "Date Naissance", "Sexe"}

\* the last assignment this parse made to key k
LastAsg(k) == log[MaxOf({n \in 1..Len(log) : log[n].key = k})]

InEngine == KnownVariant /\ pc \in {"loop", "returned"}

(***************************************************************************)
(* C1: for every batch of one or more messages the combined Full Table has *)
(* the columns "Field 1".."Field N", then "Fichier", N being the largest   *)
(* field count of any line of any file of the batch, and every row holds   *)
(* "" in each trailing field position its line did not have.               *)
(***************************************************************************)
C1_UnifiedFullTable ==
    df_full_combined.kind = "df" =>
        LET all == BatchLines(uploaded_files)
            N == MaxOf({FieldCount(all[r]) : r \in 1..Len(all)})
        IN /\ df_full_combined.columns = [j \in 1..N |-> FieldCol(j)] \o <<Fichier>>
           /\ Len(df_full_combined.rows) = Len(all)
           /\ \A r \in 1..Len(all) :
                 \A j \in (FieldCount(all[r]) + 1)..N :
                    CellAt(df_full_combined, r, FieldCol(j)) = <<>>

(***************************************************************************)
(* C2: a failure on one message of a batch is local to it: when main() has *)
(* ended, every message that has lines has its Full Table rows and its     *)
(* Extracted Record in the batch result.                                   *)
(***************************************************************************)
C2_FailureIsLocal ==
    (entry = "main" /\ pc \in {"done", "crashed"}) =>
        \A i \in 1..Len(uploaded_files) :
            LinesOf(uploaded_files[i].text) # <<>> =>
                /\ details_df.kind = "df"
                /\ \E n \in 1..Len(details_df.records) :
                      details_df.records[n]["Fichier"] = uploaded_files[i].name
                /\ df_full_combined.kind = "df"
                /\ \E r \in 1..Len(df_full_combined.rows) :
                      CellAt(df_full_combined, r, Fichier) = uploaded_files[i].name

(***************************************************************************)
(* C3: parse_details_hl7_dynamic never raises, whatever the text and the   *)
(* variant: it examines every line and returns a mapping, and the mapping  *)
(* is empty for every variant other than "ORLine" and "WISH".              *)
(***************************************************************************)
C3_DynamicNeverRaises ==
    /\ pc # "raised"
    /\ pc = "returned" =>
          /\ DOMAIN details \subseteq RuleKeys
          /\ KnownVariant => Len(seen) = Len(LinesOf(hl7_message))
          /\ ~KnownVariant => details = EmptyDict

\* an ORLine text with a PID line below the rule's threshold has been parsed
C3_Witness ==
    /\ pc = "returned"
    /\ source_choice = ORLine
    /\ \E i \in 1..Len(seen) : seen[i][1] = PID /\ Len(seen[i]) = 2
    /\ "ID PAT" \notin DOMAIN details

(***************************************************************************)
(* C4: every key other than "Type d'hospitalisation" is last-wins: in the  *)
(* returned record its value is the one extracted from the last line that  *)
(* sets it, and it is absent when no line sets it.                         *)
(***************************************************************************)
C4_LastWins ==
    (KnownVariant /\ pc = "returned") =>
        \A k \in RuleKeys \ {TypeHosp} :
            IF Setters(k) = {}
            THEN k \notin DOMAIN details
            ELSE k \in DOMAIN details /\ details[k] = ValueFrom(MaxOf(Setters(k)), k)

\* an OBX line and a later AIL line set "Cod Service Entree" to different values
C4_Witness ==
    /\ source_choice = ORLine
    /\ pc = "returned"
    /\ Len(lignes) = 2
    /\ seen[1][1] = OBX
    /\ seen[2][1] = AIL
    /\ Setters("Cod Service Entree") = {1, 2}
    /\ ValueFrom(1, "Cod Service Entree") # ValueFrom(2, "Cod Service Entree")
    /\ details["Cod Service Entree"] = ValueFrom(2, "Cod Service Entree")

(***************************************************************************)
(* C5: in ORLine extraction "Type d'hospitalisation" is assigned exactly   *)
(* once, by the first PV2 line, to the fixed annotation; no later line     *)
(* changes or removes it; it is absent while no PV2 line has been read.    *)
(***************************************************************************)
C5_TypeHospOnce ==
    (source_choice = ORLine /\ pc \in {"loop", "returned"}) =>
        LET pv2 == {i \in 1..Len(seen) : seen[i][1] = PV2}
            writes == {n \in 1..Len(log) : log[n].key = TypeHosp}
        IN IF pv2 = {}
           THEN TypeHosp \notin DOMAIN data /\ writes = {}
           ELSE /\ TypeHosp \in DOMAIN data
                /\ data[TypeHosp] = Annotation
                /\ Cardinality(writes) = 1
                /\ \A n \in writes : log[n].ln = MinOf(pv2)
                /\ pc = "returned" => details[TypeHosp] = Annotation

\* two PV2 lines have been read
C5_Witness ==
    /\ source_choice = ORLine
    /\ pc = "returned"
    /\ Len(seen) = 2
    /\ seen[1][1] = PV2
    /\ seen[2][1] = PV2
    /\ details[TypeHosp] = Annotation

(***************************************************************************)
(* C6: the patient list holds each "ID PAT" value of the batch's records   *)
(* exactly once, in order of first occurrence, and nothing else; the       *)
(* warning is given if and only if no record has an "ID PAT" key.          *)
(***************************************************************************)
FirstRecordWith(records, v) ==
    MinOf({i \in 1..Len(records) :
              "ID PAT" \in DOMAIN records[i] /\ records[i]["ID PAT"] = v})

C6_PatientLookup ==
    details_df.kind = "df" =>
        LET records == details_df.records
            having == {i \in 1..Len(records) : "ID PAT" \in DOMAIN records[i]}
        IN /\ {patient_ids[j] : j \in 1..Len(patient_ids)}
                = {records[i]["ID PAT"] : i \in having}
           /\ \A a, b \in 1..Len(patient_ids) :
                 a < b => /\ patient_ids[a] # patient_ids[b]
                          /\ FirstRecordWith(records, patient_ids[a])
                                < FirstRecordWith(records, patient_ids[b])
           /\ warning <=> having = {}

\* the records hold A, B, A and the list is A, B
C6_Witness ==
    /\ details_df.kind = "df"
    /\ Len(details_df.records) = 3
    /\ Column(details_df.records, "ID PAT") = <<<<"A">>, <<"B">>, <<"A">>>>
    /\ patient_ids = <<<<"A">>, <<"B">>>>
    /\ ~warning

(***************************************************************************)
(* C7 as stated: absent data is an absent key and never a placeholder: no  *)
(* key other than "Type d'hospitalisation" holds a value that was not      *)
(* taken from the message.                                                 *)
(***************************************************************************)
C7_NoPlaceholder ==
    InEngine =>
        \A k \in DOMAIN data : LastAsg(k).lit => k = TypeHosp

(***************************************************************************)
(* C7 as amended: the keys that hold a value not taken from the message    *)
(* are "Type d'hospitalisation" with the annotation, "Service Entree" with *)
(* "" (an AIL line of more than 3 fields whose field 4 has no "." or no    *)
(* "^^^" after its first ".") and "Heure Message" with "" (a MSH line      *)
(* whose field 7 has 8 to 11 characters); every other absent datum is an   *)
(* absent key.                                                             *)
(***************************************************************************)
C7_PlaceholdersNamed ==
    InEngine =>
        \A k \in DOMAIN data :
            LET last == LastAsg(k)
                champs == seen[last.ln]
            IN /\ data[k] = last.val
               /\ last.lit =>
                    \/ /\ k = TypeHosp
                       /\ source_choice = ORLine
                       /\ data[k] = Annotation
                       /\ champs[1] = PV2
                    \/ /\ k = "Service Entree"
                       /\ source_choice = ORLine
                       /\ data[k] = <<>>
                       /\ champs[1] = AIL
                       /\ Len(champs) > 3
                       /\ LET p == Find(champs[4], Dot)
                          IN p = 0 \/ Find(SubSeq(champs[4], p + 1, Len(champs[4])), Caret3) = 0
                    \/ /\ k = "Heure Message"
                       /\ source_choice = WISH
                       /\ data[k] = <<>>
                       /\ champs[1] = MSH
                       /\ Len(champs) > 6
                       /\ Len(champs[7]) \in 8..11

\* a MSH line with an 8-character field 7 has left "Heure Message" = ""
C7_Witness ==
    /\ source_choice = WISH
    /\ pc = "returned"
    /\ "Heure Message" \in DOMAIN details
    /\ details["Heure Message"] = <<>>
    /\ LastAsg("Heure Message").lit
    /\ Len(seen[LastAsg("Heure Message").ln][7]) = 8

(***************************************************************************)
(* C8: both views come from one tokenization: the fields the rule engine   *)
(* examines on a line are the untrimmed "|"-split of that line, the fields *)
(* the Full Table holds in that line's row before its padding.             *)
(***************************************************************************)
C8_SameTokenization ==
    (KnownVariant /\ df_full.kind = "df"
        /\ ((entry = "main" /\ pc = "returned") \/ pc = "called")) =>
        \A i \in 1..Len(seen) :
            /\ seen[i] = Split(LinesOf(hl7_message)[i], Bar)
            /\ \A j \in 1..Len(seen[i]) :
                  CellAt(df_full, i, FieldCol(j)) = seen[i][j]

(***************************************************************************)
(* C9: an ORLine AIL line with more than 3 fields sets "Cod Service        *)
(* Entree" and "Service Entree" from its field 4 as the rule states, and   *)
(* an AIL line with 3 or fewer fields leaves the record unchanged.         *)
(***************************************************************************)
\* s up to, not including, the first occurrence of sub; all of s without one
Before(s, sub) == IF Find(s, sub) = 0 THEN s ELSE SubSeq(s, 1, Find(s, sub) - 1)

\* s after the first occurrence of sub
After(s, sub) == SubSeq(s, Find(s, sub) + Len(sub), Len(s))

AilCode(F) ==
    IF Find(F, Dot) = 0 THEN F ELSE Strip(Before(After(F, Dot), Caret3))

AilService(F) ==
    IF Find(F, Dot) # 0 /\ Find(After(F, Dot), Caret3) # 0
    THEN Caret3 \o Strip(Before(After(After(F, Dot), Caret3), Caret))
    ELSE <<>>

AilExpected(champs, d) ==
    IF Len(champs) <= 3 THEN d
    ELSE [k \in DOMAIN d \cup {"Cod Service Entree", "Service Entree"} |->
            IF k = "Cod Service Entree" THEN AilCode(champs[4])
            ELSE IF k = "Service Entree" THEN AilService(champs[4])
            ELSE d[k]]

C9_AilRule ==
    [][(pc = "loop" /\ source_choice = ORLine /\ li <= Len(lignes)
          /\ RuleFields(lignes[li])[1] = AIL)
        => data' = AilExpected(RuleFields(lignes[li]), data)]_vars

\* the AIL line "x.ABC^^^DEF^GHI" has been read: "ABC" and "^^^DEF"
C9_Witness ==
    /\ source_choice = ORLine
    /\ pc = "loop"
    /\ Len(seen) >= 1
    /\ seen[Len(seen)][1] = AIL
    /\ Len(seen[Len(seen)]) > 3
    /\ seen[Len(seen)][4] = <<"x", ".", "A", "B", "C", "^", "^", "^",
                              "D", "E", "F", "^", "G", "H", "I">>
    /\ data["Cod Service Entree"] = <<"A", "B", "C">>
    /\ data["Service Entree"] = <<"^", "^", "^", "D", "E", "F">>

(***************************************************************************)
(* C10: a WISH MSH line with more than 6 fields and a field 7 of at least  *)
(* 8 characters sets "Date Message" to D[6:8]/D[4:6]/D[0:4] and "Heure     *)
(* Message" to D[8:10]:D[10:12], or to "" under 12 characters; any other   *)
(* MSH line changes neither; so in every WISH record "Date Message" is     *)
(* present exactly when "Heure Message" is.                                *)
(***************************************************************************)
MshExpected(champs, d) ==
    IF Len(champs) <= 6 \/ Len(champs[7]) < 8 THEN d
    ELSE LET D == champs[7]
         IN [k \in DOMAIN d \cup {"Date Message", "Heure Message"} |->
               IF k = "Date Message"
               THEN <<D[7], D[8], "/", D[5], D[6], "/", D[1], D[2], D[3], D[4]>>
               ELSE IF k = "Heure Message"
               THEN (IF Len(D) >= 12 THEN <<D[9], D[10], ":", D[11], D[12]>> ELSE <<>>)
               ELSE d[k]]

C10_MshRule ==
    /\ []((source_choice = WISH /\ pc \in {"loop", "returned"}) =>
            ("Date Message" \in DOMAIN data <=> "Heure Message" \in DOMAIN data))
    /\ [][(pc = "loop" /\ source_choice = WISH /\ li <= Len(lignes)
            /\ RuleFields(lignes[li])[1] = MSH)
          => data' = MshExpected(RuleFields(lignes[li]), data)]_vars

\* the MSH line with field 7 = "20230115093000" has been read
C10_Witness ==
    /\ source_choice = WISH
    /\ pc = "loop"
    /\ Len(seen) >= 1
    /\ seen[Len(seen)][1] = MSH
    /\ Len(seen[Len(seen)]) > 6
    /\ seen[Len(seen)][7] = Stamp
    /\ data["Date Message"] = <<"1", "5", "/", "0", "1", "/", "2", "0", "2", "3">>
    /\ data["Heure Message"] = <<"0", "9", ":", "3", "0">>

====
